---- MODULE Spec2Model ----
(***************************************************************************)
(* A model of the LFU cache of src/lfu.go.                                 *)
(*                                                                         *)
(* The cache struct is the record `cache`:                                 *)
(*   cap       the capacity given to New                                   *)
(*   kv        the key index: key -> kvItem, a kvItem being [v, parent]    *)
(*             with parent the *list.Element holding the item's freqNode   *)
(*   freqList  the container/list, as the sequence of its elements         *)
(*   node      the heap of list elements: element -> freqNode [freq,items] *)
(* A *kvItem is identified by its key (the code keeps one item per key),   *)
(* a *list.Element by a positive integer, Nil being the nil pointer.       *)
(***************************************************************************)
EXTENDS Integers, Sequences, FiniteSets, TLC

VARIABLES cache, last, scen, hist, pc, lock, args, cnt

vars == <<cache, last, scen, hist, pc, lock, args, cnt>>

\* ---------------------------------------------------------------- bounds
\* Keys and values the callers pass.
Keys == {"a", "b", "c"}
Values == {1, 2, 3}
\* The capacities New is called with: unbounded (negative, zero) and bounded.
Caps == {-1, 0, 1, 2}
\* The counts Evict is called with: no-ops, fewer than, as many as and more
\* than the entries a cache over Keys can hold.
EvictArgs == {-5, 0, 1, 2, 3, 5}
\* A Get hit or re-Set is issued only for a key whose frequency is below MaxFreq.
MaxFreq == 3

Nil == 0
NoValue == 0

\* The orders in which a range over a Go map holding the keys S may visit
\* them: every permutation of S.
Orders(S) == {o \in [1 .. Cardinality(S) -> S] : \A k \in S : \E i \in DOMAIN o : o[i] = k}

\* ------------------------------------------------------- container/list
\* c.freqList.Len()
ListLen(c) == Len(c.freqList)

\* Front taken for Back: the element at the tail.
Front_back(c) == IF Len(c.freqList) = 0 THEN Nil ELSE c.freqList[Len(c.freqList)]

\* c.freqList.Front(): nil on an empty list
Front(c) == IF Len(c.freqList) = 0 THEN Nil ELSE Head(c.freqList)

InList(c, e) == \E i \in 1 .. Len(c.freqList) : c.freqList[i] = e

\* e.Next(): nil for the last element and for an element that is in no list
Next_(c, e) ==
    IF \E i \in 1 .. Len(c.freqList) - 1 : c.freqList[i] = e
    THEN c.freqList[(CHOOSE i \in 1 .. Len(c.freqList) - 1 : c.freqList[i] = e) + 1]
    ELSE Nil

\* The address of a newly allocated element: one no live element has.
NewElem(c) == CHOOSE e \in 1 .. Cardinality(DOMAIN c.node) + 1 :
                 /\ e \notin DOMAIN c.node
                 /\ \A d \in 1 .. Cardinality(DOMAIN c.node) + 1 : d \notin DOMAIN c.node => e <= d

\* The keys whose item points at element e.
Referrers(c, e) == {k \in DOMAIN c.kv : c.kv[k].parent = e}

\* c.freqList.Remove(e): unlinks e when it is an element of the list. The
\* element stays on the heap as long as an item still points at it.
Remove(c, e) ==
    LET l == SelectSeq(c.freqList, LAMBDA x : x # e)
    IN  [c EXCEPT !.freqList = l,
                  !.node = IF Referrers(c, e) = {} THEN [d \in DOMAIN c.node \ {e} |-> c.node[d]] ELSE c.node]

\* PushFront taken for PushBack: the new element at the tail.
PushFront_atBack(c, e, fnode) ==
    [c EXCEPT !.freqList = c.freqList \o <<e>>,
              !.node = [d \in DOMAIN c.node \cup {e} |-> IF d = e THEN fnode ELSE c.node[d]]]

\* c.freqList.PushFront(node): a new element, holding node, at the head.
PushFront(c, e, fnode) ==
    [c EXCEPT !.freqList = <<e>> \o c.freqList,
              !.node = [d \in DOMAIN c.node \cup {e} |-> IF d = e THEN fnode ELSE c.node[d]]]

\* c.freqList.InsertAfter(node, mark): a new element right after mark; the list
\* is left as it is when mark is not one of its elements.
InsertAfter(c, e, fnode, mark) ==
    IF ~InList(c, mark) THEN c
    ELSE LET i == CHOOSE j \in 1 .. Len(c.freqList) : c.freqList[j] = mark
         IN  [c EXCEPT !.freqList = SubSeq(c.freqList, 1, i) \o <<e>> \o SubSeq(c.freqList, i + 1, Len(c.freqList)),
                       !.node = [d \in DOMAIN c.node \cup {e} |-> IF d = e THEN fnode ELSE c.node[d]]]

\* Addresses are never shown to a caller, so a cache is what it is up to a
\* renaming of its elements. Settle renames them when an operation is over: the
\* elements of the list get 1, 2, ... from the front, the ones that left the
\* list and are still pointed at get the addresses after those.
Settle(c) ==
    LET n == Len(c.freqList)
        off == {e \in DOMAIN c.node : ~InList(c, e)}
        to(e) == IF InList(c, e) THEN CHOOSE i \in 1 .. n : c.freqList[i] = e
                 ELSE n + Cardinality({d \in off : d <= e})
        from(i) == CHOOSE e \in DOMAIN c.node : to(e) = i
    IN  [c EXCEPT !.freqList = [i \in 1 .. n |-> i],
                  !.node = [i \in 1 .. Cardinality(DOMAIN c.node) |-> c.node[from(i)]],
                  !.kv = [k \in DOMAIN c.kv |->
                             [c.kv[k] EXCEPT !.parent = IF @ \in DOMAIN c.node THEN to(@) ELSE @]]]

\* ------------------------------------------------------------ the cache
\* New(cap)
New(cap) == [cap |-> cap, kv |-> [k \in {} |-> Nil], freqList |-> <<>>, node |-> [e \in {} |-> Nil]]

\* len(c.kv)
LenKv(c) == Cardinality(DOMAIN c.kv)

\* The capacity check with > for >=.
IsFull_strict(c) == c.cap > 0 /\ LenKv(c) > c.cap

\* The condition with a capacity of zero treated as a bound.
IsFull_zeroBounded(c) == c.cap >= 0 /\ LenKv(c) >= c.cap

\* The condition met one entry early.
IsFull_early(c) == c.cap > 0 /\ LenKv(c) + 1 >= c.cap

\* The condition of Set's first statement.
IsFull(c) == c.cap > 0 /\ LenKv(c) >= c.cap

\* c.kv[k] = item
PutKv(c, k, item) == [c EXCEPT !.kv = [j \in DOMAIN c.kv \cup {k} |-> IF j = k THEN item ELSE c.kv[j]]]

\* delete(c.kv, k)
DeleteKv(c, k) == [c EXCEPT !.kv = [j \in DOMAIN c.kv \ {k} |-> c.kv[j]]]

\* increment that leaves the node it emptied in the list.
increment_keepEmpty(c, k) ==
    LET curr == c.kv[k].parent
        currNode == c.node[curr]
        next == Next_(c, curr)
        e == NewElem(c)
        c1 == IF next = Nil \/ currNode.freq + 1 # c.node[next].freq
              THEN InsertAfter(c, e, [freq |-> currNode.freq + 1, items |-> {k}], curr)
              ELSE [c EXCEPT !.node[next].items = @ \cup {k}]
        c2 == [c1 EXCEPT !.kv[k].parent = Next_(c1, curr)]
    IN  [c2 EXCEPT !.node[curr].items = @ \ {k}]

\* increment without item.parent = curr.Next().
increment_keepParent(c, k) ==
    LET curr == c.kv[k].parent
        currNode == c.node[curr]
        next == Next_(c, curr)
        e == NewElem(c)
        c1 == IF next = Nil \/ currNode.freq + 1 # c.node[next].freq
              THEN InsertAfter(c, e, [freq |-> currNode.freq + 1, items |-> {k}], curr)
              ELSE [c EXCEPT !.node[next].items = @ \cup {k}]
        c3 == [c1 EXCEPT !.node[curr].items = @ \ {k}]
    IN  IF c3.node[curr].items = {} THEN Remove(c3, curr) ELSE c3

\* increment(item), the item being the one of key k
increment(c, k) ==
    LET curr == c.kv[k].parent
        currNode == c.node[curr]
        next == Next_(c, curr)
        e == NewElem(c)
        c1 == IF next = Nil \/ currNode.freq + 1 # c.node[next].freq
              THEN InsertAfter(c, e, [freq |-> currNode.freq + 1, items |-> {k}], curr)
              ELSE [c EXCEPT !.node[next].items = @ \cup {k}]
        c2 == [c1 EXCEPT !.kv[k].parent = Next_(c1, curr)]
        c3 == [c2 EXCEPT !.node[curr].items = @ \ {k}]
    IN  IF c3.node[curr].items = {} THEN Remove(c3, curr) ELSE c3

\* Set under the lock, without item.v = v for a key that is present.
SetLocked_keepValue(c, k, v) ==
    IF k \in DOMAIN c.kv
    THEN increment(c, k)
    ELSE LET front == Front(c)
             e == NewElem(c)
         IN  IF ListLen(c) = 0 \/ c.node[front].freq # 1
             THEN LET c1 == PushFront(c, e, [freq |-> 1, items |-> {}])
                      item == [v |-> v, parent |-> Front(c1)]
                  IN  PutKv([c1 EXCEPT !.node[e].items = @ \cup {k}], k, item)
             ELSE PutKv([c EXCEPT !.node[front].items = @ \cup {k}], k, [v |-> v, parent |-> front])

\* Set's insertion with a new bucket pushed whatever the head bucket is.
SetLocked_alwaysNew(c, k, v) ==
    IF k \in DOMAIN c.kv
    THEN increment([c EXCEPT !.kv[k].v = v], k)
    ELSE LET e == NewElem(c)
             c1 == PushFront(c, e, [freq |-> 1, items |-> {}])
             item == [v |-> v, parent |-> Front(c1)]
         IN  PutKv([c1 EXCEPT !.node[e].items = @ \cup {k}], k, item)

\* The part of Set that runs under the lock.
SetLocked(c, k, v) ==
    IF k \in DOMAIN c.kv
    THEN increment([c EXCEPT !.kv[k].v = v], k)
    ELSE LET front == Front(c)
             e == NewElem(c)
         IN  IF ListLen(c) = 0 \/ c.node[front].freq # 1
             THEN LET c1 == PushFront(c, e, [freq |-> 1, items |-> {}])
                      item == [v |-> v, parent |-> Front(c1)]
                  IN  PutKv([c1 EXCEPT !.node[e].items = @ \cup {k}], k, item)
             ELSE PutKv([c EXCEPT !.node[front].items = @ \cup {k}], k, [v |-> v, parent |-> front])

\* The inner loop's body without delete(c.kv, item.k).
EvictItem_keepIndex(c, front, k) == [c EXCEPT !.node[front].items = @ \ {k}]

\* One pass of the body of Evict's inner loop: the item of key k leaves the
\* index and the front node.
EvictItem(c, front, k) ==
    LET c1 == DeleteKv(c, k)
    IN  [c1 EXCEPT !.node[front].items = @ \ {k}]

\* Evict's inner loop over the items of the front node, visited in the order
\* todo, from count i: the cache and the count it ends with.
RECURSIVE RangeItems(_, _, _, _, _)
RangeItems(c, front, todo, i, n) ==
    IF todo = <<>> THEN [c |-> c, i |-> i]
    ELSE LET c1 == EvictItem(c, front, Head(todo))
         IN  IF i + 1 = n THEN [c |-> c1, i |-> i + 1]
             ELSE RangeItems(c1, front, Tail(todo), i + 1, n)

\* The end of one pass of Evict's outer loop.
DropEmptyFront(c, front) == IF c.node[front].items = {} THEN Remove(c, front) ELSE c

\* Evict's outer loop from count i, the maps being ranged over in order ord.
RECURSIVE EvictLoop(_, _, _, _)
EvictLoop(c, i, n, ord) ==
    IF i = n \/ ListLen(c) = 0 THEN c
    ELSE LET front == Front(c)
             todo == SelectSeq(ord, LAMBDA k : k \in c.node[front].items)
             r == RangeItems(c, front, todo, i, n)
         IN  EvictLoop(DropEmptyFront(r.c, front), r.i, n, ord)

\* Evict counting from 1.
EvictOp_fromOne(c, n, ord) == IF n <= 0 THEN c ELSE EvictLoop(c, 1, n, ord)

\* Evict without its return for n <= 0.
EvictOp_noGuard(c, n, ord) == EvictLoop(c, 0, n, ord)

\* Evict(n)
EvictOp(c, n, ord) == IF n <= 0 THEN c ELSE EvictLoop(c, 0, n, ord)

\* The first statement of Set: Evict(1) when the cache is full.
SetEvict(c, ord) == IF IsFull(c) THEN EvictOp(c, 1, ord) ELSE c

\* Set(k, v), run from its first statement to its return with no other
\* caller in between.
SetOp(c, k, v, ord) == SetLocked(SetEvict(c, ord), k, v)

\* Get(k): what it returns
GetOk(c, k) == k \in DOMAIN c.kv
GetValue(c, k) == IF k \in DOMAIN c.kv THEN c.kv[k].v ELSE NoValue
\* Get that bumps the front node's frequency on a miss.
GetOp_touch(c, k) ==
    IF k \in DOMAIN c.kv THEN increment(c, k)
    ELSE IF ListLen(c) = 0 THEN c ELSE [c EXCEPT !.node[Front(c)].freq = @ + 1]

\* Get(k): the cache it leaves
GetOp(c, k) == IF k \in DOMAIN c.kv THEN increment(c, k) ELSE c

\* Size()
SizeOp(c) == LenKv(c)

\* ------------------------------------------------------------ observers
\* The frequency of a present key: that of the node its item points at.
Freq(c, k) == c.node[c.kv[k].parent].freq

\* The keys an operation removed for good or for a while.
Gone(c, d) == DOMAIN c.kv \ DOMAIN d.kv

\* The largest frequency in the list, 0 for an empty list.
TopFreq(c) == IF ListLen(c) = 0 THEN 0 ELSE c.node[c.freqList[Len(c.freqList)]].freq

\* The frequencies the keys of S have in cache c.
FreqsOf(c, S) == {c.node[c.kv[k].parent].freq : k \in S}

\* What `last` records of the call that returned last: the operation, its key
\* and value or its n, whether the key was present when it was called, the
\* keys its eviction removed and the frequencies they had.
\* `again` tells a Set of a key that is not present and was Set before.
NoCall == [op |-> "New", k |-> "", v |-> NoValue, hit |-> FALSE, again |-> FALSE, n |-> 0,
           evicted |-> {}, freqs |-> {}]

\* The calls of the scenario of capacity 2: Set(a,1); Set(b,2); Get(a); Set(c,3).
Script == << [op |-> "Set", k |-> "a", v |-> 1], [op |-> "Set", k |-> "b", v |-> 2],
             [op |-> "Get", k |-> "a", v |-> NoValue], [op |-> "Set", k |-> "c", v |-> 3] >>

\* How far the calls made so far follow the script: -1 once they left it.
Follow(call) ==
    IF scen >= 0 /\ scen < Len(Script) /\ cache.cap = 2 /\ Script[scen + 1] = call
    THEN scen + 1 ELSE -1

\* What `hist` records of the calls made so far, up to the first call of
\* Evict: the keys that were Set, and whether the calls were Sets of pairwise
\* distinct keys only ("sets") or Sets and Gets ("mixed"). Size leaves it as
\* it is; from the first call of Evict on it is NoHist.
NoHist == [kind |-> "evict", seen |-> {}]

AfterSet(k) ==
    IF hist.kind = "evict" THEN hist
    ELSE [kind |-> IF hist.kind = "sets" /\ k \notin hist.seen THEN "sets" ELSE "mixed",
          seen |-> hist.seen \cup {k}]

AfterGet == IF hist.kind = "evict" THEN hist ELSE [hist EXCEPT !.kind = "mixed"]

\* --------------------------------------------------------------- callers
\* The callers: goroutines calling into one cache.
Callers == {1, 2}
Free == 0

NoArgs == [op |-> "New", k |-> "", v |-> NoValue, n |-> 0]

Init ==
    /\ \E cap \in Caps : cache = New(cap)
    /\ last = NoCall
    /\ scen = 0
    /\ hist = [kind |-> "sets", seen |-> {}]
    /\ pc = [t \in Callers |-> "idle"]
    /\ lock = Free
    /\ args = [t \in Callers |-> NoArgs]
    /\ cnt = [t \in Callers |-> 0]

callerVars == <<pc, lock, args, cnt>>

\* ------------------------------------------------ calls made one at a time
Set(k, v) ==
    /\ k \in DOMAIN cache.kv => Freq(cache, k) < MaxFreq
    /\ \E ord \in Orders(IF IsFull(cache) THEN DOMAIN cache.kv ELSE {}) :
          /\ cache' = Settle(SetOp(cache, k, v, ord))
          /\ last' = [NoCall EXCEPT !.op = "Set", !.k = k, !.v = v, !.hit = k \in DOMAIN cache.kv,
                                    !.again = k \notin DOMAIN cache.kv /\ k \in hist.seen,
                                    !.evicted = Gone(cache, SetEvict(cache, ord)),
                                    !.freqs = FreqsOf(cache, Gone(cache, SetEvict(cache, ord)))]
    /\ scen' = Follow([op |-> "Set", k |-> k, v |-> v])
    /\ hist' = AfterSet(k)
    /\ UNCHANGED callerVars

Get(k) ==
    /\ k \in DOMAIN cache.kv => Freq(cache, k) < MaxFreq
    /\ cache' = Settle(GetOp(cache, k))
    /\ last' = [NoCall EXCEPT !.op = "Get", !.k = k, !.hit = GetOk(cache, k)]
    /\ scen' = Follow([op |-> "Get", k |-> k, v |-> NoValue])
    /\ hist' = AfterGet
    /\ UNCHANGED callerVars

Evict(n) ==
    /\ \E ord \in (IF n > 0 THEN Orders(DOMAIN cache.kv)
                          ELSE {CHOOSE o \in Orders(DOMAIN cache.kv) : TRUE}) :
          /\ cache' = Settle(EvictOp(cache, n, ord))
          /\ last' = [NoCall EXCEPT !.op = "Evict", !.n = n, !.evicted = Gone(cache, cache'),
                                    !.freqs = FreqsOf(cache, Gone(cache, cache'))]
    /\ scen' = -1
    /\ hist' = NoHist
    /\ UNCHANGED callerVars

Size ==
    /\ last' = [NoCall EXCEPT !.op = "Size", !.n = SizeOp(cache)]
    /\ scen' = -1
    /\ UNCHANGED <<cache, hist, callerVars>>

Next ==
    \/ \E k \in Keys, v \in Values : Set(k, v)
    \/ \E k \in Keys : Get(k)
    \/ \E n \in EvictArgs : Evict(n)
    \/ Size

Spec == Init /\ [][Next]_vars

\* --------------------------------------------------- concurrent callers
\* Each caller runs its call in the steps the mutex allows: pc[t] is where
\* caller t stands, args[t] the call it is in, cnt[t] the i of its Evict, lock
\* the caller holding the mutex. A stretch of code run with the mutex held is
\* one step, but for Evict's loop, one step for each item: the entry count
\* it changes is read by Set with the mutex not held.
ConcKeys == Keys
ConcValues == {1, 2}

\* The calls that may still raise a frequency.
Raising == {t \in Callers : pc[t] # "idle" /\ args[t].op \in {"Set", "Get"}}

\* A call that may raise a frequency starts only when no frequency can pass MaxFreq.
Room == TopFreq(cache) + Cardinality(Raising) < MaxFreq

Goto(t, where) == pc' = [pc EXCEPT ![t] = where]

Return(t) == /\ pc' = [pc EXCEPT ![t] = "idle"]
             /\ args' = [args EXCEPT ![t] = NoArgs]

\* Where Evict returns to: into Set, or to the caller.
EvictReturn(t) ==
    IF args[t].op = "Set" THEN Goto(t, "SetLock") /\ UNCHANGED args ELSE Return(t)

CallSet(t, k, v) ==
    /\ pc[t] = "idle"
    /\ Room
    /\ Goto(t, "SetCheck")
    /\ args' = [args EXCEPT ![t] = [op |-> "Set", k |-> k, v |-> v, n |-> 1]]
    /\ UNCHANGED <<cache, last, scen, hist, lock, cnt>>

\* Set's first statement that never finds the cache full.
SetCheck_noEvict(t) ==
    /\ pc[t] = "SetCheck"
    /\ pc' = [pc EXCEPT ![t] = "SetLock"]
    /\ UNCHANGED <<cache, last, scen, hist, lock, args, cnt>>

\* Set's first statement: it reads c.cap and, when c.cap > 0, len(c.kv), with
\* the mutex not held: a data race with the writers of the index. The read
\* yields a count the index has had since the caller's last use of the mutex:
\* the count of this state, that of a state inside another caller's Evict
\* (its loop is stepped item by item), or an earlier one, which is the read
\* of a SetCheck taken earlier.
SetCheck(t) ==
    /\ pc[t] = "SetCheck"
    /\ Goto(t, IF IsFull(cache) THEN "EvictLock" ELSE "SetLock")
    /\ UNCHANGED <<cache, last, scen, hist, lock, args, cnt>>

\* Set from c.Lock() to its return.
SetLock(t) ==
    /\ pc[t] = "SetLock"
    /\ lock = Free
    /\ cache' = Settle(SetLocked(cache, args[t].k, args[t].v))
    /\ Return(t)
    /\ UNCHANGED <<last, scen, hist, lock, cnt>>

CallGet(t, k) ==
    /\ pc[t] = "idle"
    /\ Room
    /\ Goto(t, "GetLock")
    /\ args' = [args EXCEPT ![t] = [op |-> "Get", k |-> k, v |-> NoValue, n |-> 0]]
    /\ UNCHANGED <<cache, last, scen, hist, lock, cnt>>

GetLock(t) ==
    /\ pc[t] = "GetLock"
    /\ lock = Free
    /\ cache' = Settle(GetOp(cache, args[t].k))
    /\ Return(t)
    /\ UNCHANGED <<last, scen, hist, lock, cnt>>

CallEvict(t, n) ==
    /\ pc[t] = "idle"
    /\ Goto(t, "EvictLock")
    /\ args' = [args EXCEPT ![t] = [op |-> "Evict", k |-> "", v |-> NoValue, n |-> n]]
    /\ UNCHANGED <<cache, last, scen, hist, lock, cnt>>

\* Evict from c.Lock() to the loop, or to its return when n <= 0.
EvictLock(t) ==
    /\ pc[t] = "EvictLock"
    /\ lock = Free
    /\ IF args[t].n <= 0
       THEN EvictReturn(t) /\ UNCHANGED <<lock, cnt>>
       ELSE /\ lock' = t
            /\ cnt' = [cnt EXCEPT ![t] = 0]
            /\ Goto(t, "EvictLoop")
            /\ UNCHANGED args
    /\ UNCHANGED <<cache, last, scen, hist>>

\* Evict's loop returning with the mutex still held.
EvictStep_noUnlock(t) ==
    /\ pc[t] = "EvictLoop"
    /\ lock = t
    /\ IF cnt[t] = args[t].n \/ ListLen(cache) = 0
       THEN /\ cnt' = [cnt EXCEPT ![t] = 0]
            /\ EvictReturn(t)
            /\ UNCHANGED <<cache, lock>>
       ELSE LET front == Front(cache)
            IN  /\ IF cache.node[front].items = {}
                   THEN /\ cache' = Settle(DropEmptyFront(cache, front))
                        /\ UNCHANGED cnt
                   ELSE \E k \in cache.node[front].items :
                           LET c1 == EvictItem(cache, front, k)
                           IN  /\ cache' = Settle(IF cnt[t] + 1 = args[t].n \/ c1.node[front].items = {}
                                                  THEN DropEmptyFront(c1, front) ELSE c1)
                               /\ cnt' = [cnt EXCEPT ![t] = @ + 1]
                /\ UNCHANGED <<pc, lock, args>>
    /\ UNCHANGED <<last, scen, hist>>

\* Evict's loop: the exit and the return, or one item of the front node, with
\* the removal of the node when the inner loop is left.
EvictStep(t) ==
    /\ pc[t] = "EvictLoop"
    /\ lock = t
    /\ IF cnt[t] = args[t].n \/ ListLen(cache) = 0
       THEN /\ lock' = Free
            /\ cnt' = [cnt EXCEPT ![t] = 0]
            /\ EvictReturn(t)
            /\ UNCHANGED cache
       ELSE LET front == Front(cache)
            IN  /\ IF cache.node[front].items = {}
                   THEN /\ cache' = Settle(DropEmptyFront(cache, front))
                        /\ UNCHANGED cnt
                   ELSE \E k \in cache.node[front].items :
                           LET c1 == EvictItem(cache, front, k)
                           IN  /\ cache' = Settle(IF cnt[t] + 1 = args[t].n \/ c1.node[front].items = {}
                                                  THEN DropEmptyFront(c1, front) ELSE c1)
                               /\ cnt' = [cnt EXCEPT ![t] = @ + 1]
                /\ UNCHANGED <<pc, lock, args>>
    /\ UNCHANGED <<last, scen, hist>>

CallSize(t) ==
    /\ pc[t] = "idle"
    /\ Goto(t, "SizeLock")
    /\ args' = [args EXCEPT ![t] = [op |-> "Size", k |-> "", v |-> NoValue, n |-> 0]]
    /\ UNCHANGED <<cache, last, scen, hist, lock, cnt>>

SizeLock(t) ==
    /\ pc[t] = "SizeLock"
    /\ lock = Free
    /\ Return(t)
    /\ UNCHANGED <<cache, last, scen, hist, lock, cnt>>

\* The steps of the callers, with the calls' arguments drawn from K, V and N.
CallerNext(K, V, N) ==
    \E t \in Callers :
        \/ \E k \in K, v \in V : CallSet(t, k, v)
        \/ SetCheck(t)
        \/ SetLock(t)
        \/ \E k \in K : CallGet(t, k)
        \/ GetLock(t)
        \/ \E n \in N : CallEvict(t, n)
        \/ EvictLock(t)
        \/ EvictStep(t)
        \/ CallSize(t)
        \/ SizeLock(t)

ConcNext == CallerNext(ConcKeys, ConcValues, EvictArgs)

ConcSpec == Init /\ [][ConcNext]_vars

\* ================================================================ claims
\* The buckets of the list, from head to tail.
\* The steps of caller t inside a call it has made.
Step(t) ==
    \/ SetCheck(t)
    \/ SetLock(t)
    \/ GetLock(t)
    \/ EvictLock(t)
    \/ EvictStep(t)
    \/ SizeLock(t)

\* Caller t stands at c.lock.Lock().
Waits(t) == pc[t] \in {"SetLock", "GetLock", "EvictLock", "SizeLock"}

\* Caller t can take a step: it is inside a call and, where it stands at
\* c.lock.Lock(), the mutex is free. This is ENABLED <<Step(t)>>_vars.
CanStep(t) == pc[t] # "idle" /\ (Waits(t) => lock = Free)

StepEnabled == \A t \in Callers : CanStep(t) <=> ENABLED <<Step(t)>>_vars

\* The callers under fair scheduling: a goroutine that can run does run, and
\* one that waits for the mutex gets it (sync.Mutex hands the mutex to a
\* waiter that has waited long), so a step that is enabled again and again
\* is taken. The condition is strong fairness, SF_vars(Step(t)), with ENABLED
\* written out as CanStep(t).
Fairness == \A t \in Callers : ([]<>CanStep(t) => []<><<Step(t)>>_vars)

\* The calls whose return is followed: the value a Set stores does not tell
\* in the steps a call takes, and of Evict's n a value that is not positive,
\* values within the entries held and one beyond them.
FairValues == {1}
FairEvictArgs == {0, 1, 2, 5}

FairNext == CallerNext(ConcKeys, FairValues, FairEvictArgs)

FairSpec == Init /\ [][FairNext]_vars /\ Fairness

Bucket(i) == cache.node[cache.freqList[i]]
Buckets == 1 .. ListLen(cache)

\* C1: after any sequence of Set/Get/Evict calls the bucket list is strictly
\* ascending in frequency from head to tail, no two buckets have the same
\* frequency, every frequency is at least 1 and no bucket is empty.
C1_BucketListOrdered ==
    /\ \A i \in Buckets : i + 1 \in Buckets => Bucket(i).freq < Bucket(i + 1).freq
    /\ \A i, j \in Buckets : i # j => Bucket(i).freq # Bucket(j).freq
    /\ \A i \in Buckets : Bucket(i).freq >= 1
    /\ \A i \in Buckets : Bucket(i).items # {}

\* An Evict has removed entries and left buckets that are not neighbours in
\* frequency: increments and removals of buckets have both happened.
C1_Witness ==
    /\ last.op = "Evict"
    /\ last.evicted # {}
    /\ \E i \in Buckets : i + 1 \in Buckets /\ Bucket(i).freq + 1 < Bucket(i + 1).freq

RECURSIVE SumMembers(_)
SumMembers(i) == IF i = 0 THEN 0 ELSE Cardinality(Bucket(i).items) + SumMembers(i - 1)

\* C2: the number of indexed keys is the sum of the buckets' member counts,
\* every indexed key is a member of exactly one bucket, no bucket holds a key
\* that is not indexed, and Size() returns that number.
C2_IndexMatchesBuckets ==
    /\ LenKv(cache) = SumMembers(ListLen(cache))
    /\ \A k \in DOMAIN cache.kv : Cardinality({i \in Buckets : k \in Bucket(i).items}) = 1
    /\ \A i \in Buckets : Bucket(i).items \subseteq DOMAIN cache.kv
    /\ SizeOp(cache) = SumMembers(ListLen(cache))

\* An Evict has removed some entries and left others, in two buckets.
C2_Witness ==
    /\ last.op = "Evict"
    /\ last.evicted # {}
    /\ LenKv(cache) >= 2
    /\ ListLen(cache) >= 2

\* C3: with capacity C > 0, a Set of a key that is not present, made when
\* Size() = C, removes exactly one entry that was present and inserts the new
\* key, so that Size() = C afterwards; and Size() <= C after every call.
C3_SetAtCapacity ==
    [][ /\ cache.cap > 0 => SizeOp(cache') <= cache.cap
        /\ \A k \in Keys :
              (last'.op = "Set" /\ last'.k = k /\ k \notin DOMAIN cache.kv
                 /\ cache.cap > 0 /\ SizeOp(cache) = cache.cap)
              => /\ Cardinality(DOMAIN cache.kv \ DOMAIN cache'.kv) = 1
                 /\ DOMAIN cache'.kv \ DOMAIN cache.kv = {k}
                 /\ SizeOp(cache') = cache.cap ]_vars

\* A Set of a new key has just returned, having evicted an entry of a full cache.
C3_Witness ==
    /\ last.op = "Set"
    /\ ~last.hit
    /\ Cardinality(last.evicted) = 1
    /\ cache.cap > 0
    /\ SizeOp(cache) = cache.cap

\* C4: a single eviction (Evict(1), or the eviction of a Set on a full cache)
\* removes an entry of minimum frequency: no live key had a frequency below
\* that of the removed one. And with capacity 2, Set(a,1); Set(b,2); Get(a);
\* Set(c,3) leaves exactly the keys a and c, Size() being 2.
C4_EvictsLeastFrequent ==
    [][ /\ \A x \in Keys :
              (/\ \/ last'.op = "Evict" /\ last'.n = 1
                  \/ last'.op = "Set"
               /\ x \in last'.evicted)
              => \A j \in DOMAIN cache.kv : Freq(cache, x) <= Freq(cache, j)
        /\ scen' = Len(Script) => DOMAIN cache'.kv = {"a", "c"} /\ SizeOp(cache') = 2 ]_vars

\* The scenario has been run to its end, and its last Set evicted b.
C4_Witness ==
    /\ scen = Len(Script)
    /\ last.op = "Set"
    /\ last.evicted = {"b"}

\* C10: Get(k) for a key that is not present returns found = false and leaves
\* the key index, the bucket list, every bucket and Size() as they were.
C10_GetMissChangesNothing ==
    [][ \A k \in Keys :
           (last'.op = "Get" /\ last'.k = k /\ ~GetOk(cache, k))
           => /\ ~last'.hit
              /\ cache'.kv = cache.kv
              /\ cache'.freqList = cache.freqList
              /\ cache'.node = cache.node
              /\ SizeOp(cache') = SizeOp(cache) ]_vars

\* A Get has just missed on a cache that holds entries in two buckets.
C10_Witness ==
    /\ last.op = "Get"
    /\ ~last.hit
    /\ last.k \notin DOMAIN cache.kv
    /\ ListLen(cache) >= 2

\* C5: Set(k, v2) of a key that is present removes no entry: the keys present
\* and Size() are as before the call, and Get(k) then returns (v2, true).
C5_ResetRemovesNothing ==
    [][ \A k \in Keys, v \in Values :
           (Set(k, v) /\ k \in DOMAIN cache.kv)
           => /\ DOMAIN cache'.kv = DOMAIN cache.kv
              /\ SizeOp(cache') = SizeOp(cache)
              /\ GetOk(cache', k)
              /\ GetValue(cache', k) = v ]_vars

\* C6: a Get hit and a re-Set of a live key raise its frequency by exactly
\* one, in every reachable state, a cache at capacity included.
C6_HitRaisesFrequencyByOne ==
    [][ \A k \in Keys :
           (last'.op \in {"Set", "Get"} /\ last'.k = k /\ last'.hit)
           => /\ k \in DOMAIN cache'.kv
              /\ Freq(cache', k) = Freq(cache, k) + 1 ]_vars

\* Caller t is in a Set of a cache with a capacity, past its capacity check
\* and before its insertion.
InsideSet(t) ==
    /\ cache.cap > 0
    /\ args[t].op = "Set"
    /\ pc[t] \in {"EvictLock", "EvictLoop", "SetLock"}

\* Caller u takes the step.
Steps(u) == pc'[u] # pc[u] \/ cnt'[u] # cnt[u]

\* C7: the capacity check, the eviction and the insertion of one Set are one
\* atomic step: no call of another caller takes effect between them.
C7_SetIsAtomic ==
    [][ \A t, u \in Callers :
           (t # u /\ InsideSet(t) /\ Steps(u)) => cache' = cache ]_vars

\* C8: with capacity C > 0 and callers invoking Set concurrently,
\* Size() <= C in every reachable state.
C8_ConcurrentSetsKeepCapacity == cache.cap > 0 => SizeOp(cache) <= cache.cap

\* Caller t reads the key index: Set's capacity check reads len(c.kv) when
\* c.cap > 0.
ReadsIndex(t) == pc[t] = "SetCheck" /\ pc'[t] # "SetCheck" /\ cache.cap > 0

\* C9: every read of the shared structure is made by a caller holding the
\* mutex, so that no caller observes the structure while another caller is
\* inside a critical section.
C9_ReadsUnderMutex ==
    [][ \A t \in Callers :
           ReadsIndex(t) => /\ lock = t
                            /\ ~\E u \in Callers : u # t /\ lock = u ]_vars

\* The consequence alone: no read of the key index while another caller holds
\* the mutex in Evict's loop, some entries removed and more to remove.
C9_NoReadInsideEvict ==
    [][ \A t \in Callers :
           ReadsIndex(t) => ~\E u \in Callers :
                                /\ u # t /\ lock = u
                                /\ cnt[u] > 0 /\ cnt[u] < args[u].n /\ ListLen(cache) > 0 ]_vars

Min(a, b) == IF a <= b THEN a ELSE b

\* C11: Evict(n) with n > 0 removes exactly min(n, Size()) entries and adds
\* none; when n >= Size() it leaves no entry and no bucket.
C11_EvictRemovesMin ==
    [][ \A n \in EvictArgs :
           (last'.op = "Evict" /\ last'.n = n /\ n > 0)
           => /\ DOMAIN cache'.kv \subseteq DOMAIN cache.kv
              /\ Cardinality(DOMAIN cache.kv \ DOMAIN cache'.kv) = Min(n, SizeOp(cache))
              /\ SizeOp(cache') = SizeOp(cache) - Min(n, SizeOp(cache))
              /\ n >= SizeOp(cache) => SizeOp(cache') = 0 /\ ListLen(cache') = 0 ]_vars

\* Evict(5) has just emptied a cache of three entries.
C11_Witness ==
    /\ last.op = "Evict"
    /\ last.n = 5
    /\ Cardinality(last.evicted) = 3
    /\ SizeOp(cache) = 0
    /\ ListLen(cache) = 0

\* C12: Evict(n) with n <= 0 leaves the key index, the bucket list, the
\* buckets and Size() as they were.
C12_EvictNonPositiveIsNoOp ==
    [][ \A n \in EvictArgs :
           (last'.op = "Evict" /\ last'.n = n /\ n <= 0)
           => /\ cache'.kv = cache.kv
              /\ cache'.freqList = cache.freqList
              /\ cache'.node = cache.node
              /\ SizeOp(cache') = SizeOp(cache) ]_vars

\* Evict(-5) has just returned on a cache that holds entries in two buckets.
C12_Witness ==
    /\ last.op = "Evict"
    /\ last.n = -5
    /\ last.evicted = {}
    /\ SizeOp(cache) >= 2
    /\ ListLen(cache) >= 2

\* C16: the parent of every indexed item is an element of the bucket list,
\* and the node it holds has the item among its members.
C16_ParentIsLiveBucket ==
    \A k \in DOMAIN cache.kv :
        /\ InList(cache, cache.kv[k].parent)
        /\ cache.kv[k].parent \in DOMAIN cache.node
        /\ k \in cache.node[cache.kv[k].parent].items

\* A Get has just moved its key, alone in the list, to a new node: the node
\* the key was in has left the list.
C16_Witness ==
    /\ last.op = "Get"
    /\ last.hit
    /\ ListLen(cache) = 1
    /\ last.k \in DOMAIN cache.kv
    /\ Freq(cache, last.k) >= 2

\* C17: every entry Evict(n) removed had a frequency at most that of every
\* entry that remains: a bucket loses an entry only once every bucket of lower
\* frequency is gone, and the buckets left are those of the entries left.
C17_EvictAscending ==
    [][ (last'.op = "Evict" /\ last'.n > 0)
        => /\ \A x \in last'.evicted : \A j \in DOMAIN cache'.kv : Freq(cache, x) <= Freq(cache, j)
           /\ \A x \in last'.evicted : \A j \in DOMAIN cache.kv :
                 Freq(cache, j) < Freq(cache, x) => j \in last'.evicted
           /\ \A i \in 1 .. ListLen(cache') :
                 \A f \in last'.freqs : f <= cache'.node[cache'.freqList[i]].freq ]_vars

\* An Evict has just removed entries of two buckets and left an entry.
C17_Witness ==
    /\ last.op = "Evict"
    /\ Cardinality(last.freqs) = 2
    /\ SizeOp(cache) >= 1

\* C19: with calls made one at a time, Get(k) right after Set(k, v) returns
\* (v, true), whatever the state, the capacity and the key.
C19_GetAfterSet ==
    [][ last'.op = "Set"
        => GetOk(cache', last'.k) /\ GetValue(cache', last'.k) = last'.v ]_vars

\* A Set on a full cache has just evicted its own key and inserted it anew.
C19_Witness ==
    /\ last.op = "Set"
    /\ last.hit
    /\ last.k \in last.evicted
    /\ GetOk(cache, last.k)
    /\ IsFull(cache)

\* C20: with capacity C > 0 and N callers, Set being its three steps (the
\* read of the count with the mutex not held, Evict(1) under the mutex, the
\* insertion or increment under the mutex), Size() <= C + N - 1 in every
\* reachable state, and the bucket list is ordered and matches the index in
\* every reachable state.
C20_OvershootBounded ==
    /\ cache.cap > 0 => SizeOp(cache) <= cache.cap + Cardinality(Callers) - 1
    /\ C1_BucketListOrdered
    /\ C2_IndexMatchesBuckets

\* Concurrent Sets have filled a cache of capacity 1 to the bound, which is
\* below the number of keys.
C20_Witness ==
    /\ cache.cap = 1
    /\ SizeOp(cache) = cache.cap + Cardinality(Callers) - 1
    /\ SizeOp(cache) < Cardinality(ConcKeys)

\* C13: with a capacity of zero or less the cache is unbounded: no Set removes
\* an entry, and after any calls of Set and Get with no call of Evict, Size is
\* the number of distinct keys that were Set.
C13_UnboundedKeepsAll ==
    [][ cache.cap <= 0
        => /\ last'.op = "Set"
              => /\ last'.evicted = {}
                 /\ DOMAIN cache'.kv = DOMAIN cache.kv \cup {last'.k}
           /\ hist'.kind # "evict"
              => /\ DOMAIN cache'.kv = hist'.seen
                 /\ SizeOp(cache') = Cardinality(hist'.seen) ]_vars

C13_Witness ==
    /\ cache.cap <= 0
    /\ hist.kind = "mixed"
    /\ last.op = "Set"
    /\ last.hit
    /\ SizeOp(cache) = Cardinality(Keys)

\* C14: with a capacity C > 0, after Sets of pairwise distinct keys, no more
\* than C of them, nothing has been evicted and Size is the number of keys
\* inserted.
C14_DistinctSetsFit ==
    (cache.cap > 0 /\ hist.kind = "sets" /\ Cardinality(hist.seen) <= cache.cap)
        => /\ DOMAIN cache.kv = hist.seen
           /\ SizeOp(cache) = Cardinality(hist.seen)

C14_Witness ==
    /\ cache.cap = 2
    /\ hist.kind = "sets"
    /\ Cardinality(hist.seen) = cache.cap
    /\ last.op = "Set"
    /\ SizeOp(cache) = cache.cap

\* C18: a Set of a key that is not present leaves the key at frequency 1 in
\* the bucket at the head of the list, which is the former head bucket when
\* that had frequency 1 and a new bucket otherwise; the key's frequency before
\* an earlier eviction is forgotten, and the other entries that remain keep
\* their frequency and their bucket.
C18_NewKeyAtFrequencyOne ==
    [][ (last'.op = "Set" /\ ~last'.hit)
        => LET k == last'.k
               rest == DOMAIN cache.kv \ last'.evicted
           IN  /\ Freq(cache', k) = 1
               /\ cache'.kv[k].parent = Front(cache')
               /\ cache'.node[Front(cache')].items = {k} \cup {j \in rest : Freq(cache, j) = 1}
               /\ DOMAIN cache'.kv = rest \cup {k}
               /\ \A j \in rest : Freq(cache', j) = Freq(cache, j)
               /\ \A i, j \in rest : (cache'.kv[i].parent = cache'.kv[j].parent)
                                        <=> (cache.kv[i].parent = cache.kv[j].parent) ]_vars

C18_Witness ==
    /\ last.op = "Set"
    /\ ~last.hit
    /\ last.again
    /\ last.evicted # {}
    /\ Freq(cache, last.k) = 1
    /\ Cardinality(cache.node[Front(cache)].items) = 2

\* C15: under fair scheduling every call of Set, Get, Evict and Size returns:
\* no caller waits for a mutex it holds itself (Set calls Evict with the mutex
\* not held), and every call that has started, Evict's loop included, comes
\* to its return.
C15_EveryCallReturns ==
    /\ [](\A t \in Callers : Waits(t) => lock # t)
    /\ \A t \in Callers : (pc[t] # "idle") ~> (pc[t] = "idle")

C15_Witness ==
    \E t \in Callers :
        /\ args[t].op = "Set"
        /\ pc[t] = "EvictLoop"
        /\ lock = t
        /\ \E u \in Callers : Waits(u)

====
